---- MODULE Spec2Model ----
(***************************************************************************)
(* A model of nlpia/web.py: URL parsing helpers, the Google-Drive title    *)
(* lookup, the confirmation-token handshake of                             *)
(* download_file_from_google_drive and the chunked writer                  *)
(* save_response_content.                                                  *)
(*                                                                         *)
(* Python strings are sequences of tokens.  A token is a fixed, non-empty  *)
(* run of characters ("id=", "https", "Google Drive", ...); the tokens are *)
(* chosen so that every pattern the code searches for ('&id=', '?id=',     *)
(* ':', '//', '[', ']', 'download_warning', 'Google Drive', whitespace)    *)
(* is a sequence of whole tokens and cannot arise across a token boundary. *)
(* A python value that may be None is a record: NoneV, or Str(s).          *)
(*                                                                         *)
(* One call of one function is one behaviour: Init draws the function      *)
(* (op) and its arguments, the actions are the steps of that function, and *)
(* the behaviour ends with pc = "returned" or pc = "raised" (exc names the *)
(* exception that left the function).                                      *)
(*                                                                         *)
(* The functions are modelled by their bodies.  Line 239 of web.py is the  *)
(* bare name live_stream, which raises NameError when the module is        *)
(* imported; the model describes the functions as they behave once that    *)
(* line is out of the way.                                                 *)
(***************************************************************************)
EXTENDS Integers, Sequences, FiniteSets, TLC

VARIABLES
    op,           \* the function called
    pc,           \* the position in it
    driveid,      \* download_file_from_google_drive / get_url_filename: local driveid
    args,         \* the arguments driveid, filename and chunksize as passed (never rebound)
    filename,     \* local filename (an optional string)
    destination,  \* local destination
    url,          \* try_parse_url / get_url_title / get_url_filename: argument url
    chunksize,    \* save_response_content: local chunksize
    chunks,       \* save_response_content: the chunks the response body delivers
    requests,     \* the GETs issued to the download endpoint, in order
    responses,    \* the cookie jar of each response received from it, in order
    response,     \* local response: index into responses (0: none yet)
    token,        \* local token
    title_gets,   \* the URLs of the title requests issued (get_url_title's GET)
    writer_calls, \* the calls of save_response_content made by the download
    iter_arg,     \* the block size handed to response.iter_content
    file,         \* the destination file: [exists, content]
    path,         \* local full_destination_path
    result,       \* the value returned
    exc           \* the exception that left the function ("none": none)

vars == <<op, pc, driveid, args, filename, destination, url, chunksize, chunks,
          requests, responses, response, token, title_gets, writer_calls,
          iter_arg, file, path, result, exc>>

-----------------------------------------------------------------------------
(* Bounds of the model *)

MaxIdLen == 5
MaxUrlLen == 5
MaxCookies == 2
MaxChunks == 3

-----------------------------------------------------------------------------
(* Python values *)

NoneV == [kind |-> "None"]
Str(s) == [kind |-> "str", v |-> s]
IntV(n) == [kind |-> "int", n |-> n]

\* bool(x) of an optional string or integer
Truthy(x) ==
    CASE x.kind = "None" -> FALSE
      [] x.kind = "str" -> x.v # <<>>
      [] x.kind = "int" -> x.n # 0
      [] OTHER -> TRUE

\* the sequences over S of length at most n
SeqsUpTo(S, n) == UNION {[1..k -> S] : k \in 0..n}

\* s.find(d): the least 1-based index at which d occurs in s, 0 if none
Find(s, d) ==
    LET hits == {i \in 1..(Len(s) - Len(d) + 1) : SubSeq(s, i, i + Len(d) - 1) = d}
    IN IF hits = {} THEN 0 ELSE CHOOSE i \in hits : \A j \in hits : i <= j

\* d in s
Contains(s, d) == Find(s, d) # 0

StartsWith(s, p) == Len(s) >= Len(p) /\ SubSeq(s, 1, Len(p)) = p

EndsWith(s, p) == Len(s) >= Len(p) /\ SubSeq(s, Len(s) - Len(p) + 1, Len(s)) = p

\* s.split(d): the pieces between the occurrences of d, scanned left to right
RECURSIVE Split(_, _)
Split(s, d) ==
    LET i == Find(s, d)
    IN IF i = 0 THEN <<s>>
       ELSE <<SubSeq(s, 1, i - 1)>> \o Split(SubSeq(s, i + Len(d), Len(s)), d)

\* pieces[-1]
Last(pieces) == pieces[Len(pieces)]

\* s.split(d, 1)[-1]: what follows the first occurrence only
SplitFirstOnly(s, d) ==
    LET i == Find(s, d)
    IN IF i = 0 THEN s ELSE SubSeq(s, i + Len(d), Len(s))

-----------------------------------------------------------------------------
(* Drive ID extraction, web.py lines 246-251 *)

AMP_ID == <<"&", "id=">>
Q_ID == <<"?", "id=">>

IdAlphabet == {"x", "&", "?", "id="}

\* driveid.split(d)[-1] under the test d in driveid: one of the two ifs
AfterLast(s, d) == IF Contains(s, d) THEN Last(Split(s, d)) ELSE s

\* the same with split(d, 1): cut at the first occurrence instead of the last
AfterFirst(s, d) == IF Contains(s, d) THEN SplitFirstOnly(s, d) ELSE s

\* the same with [0] for [-1]: the piece before the first occurrence
BeforeFirst(s, d) == IF Contains(s, d) THEN Split(s, d)[1] ELSE s

\* the second test written as elif: the '?id=' rule skipped after an '&id=' split
ExtractDriveIdElif(s) ==
    IF Contains(s, AMP_ID) THEN Last(Split(s, AMP_ID)) ELSE AfterLast(s, Q_ID)

ExtractDriveIdFirstOcc(s) == AfterFirst(AfterFirst(s, AMP_ID), Q_ID)

ExtractDriveIdHead(s) == BeforeFirst(BeforeFirst(s, AMP_ID), Q_ID)

\* two independent ifs: the '?id=' test reads the driveid the '&id=' branch rebound
ExtractDriveId(s) == AfterLast(AfterLast(s, AMP_ID), Q_ID)

-----------------------------------------------------------------------------
(* Confirmation token, web.py lines 216-220 *)

DOWNLOAD_WARNING == <<"download_warning">>

\* the cookies a response of the download endpoint may carry
Cookies ==
    { [key |-> <<"download_warning", "_13Ab">>, value |-> <<"TOKEN123">>],
      [key |-> <<"download_warning", "_13Ab">>, value |-> <<"T2">>],
      [key |-> <<"download_warning">>, value |-> <<>>],
      [key |-> <<"NID">>, value |-> <<"TOKEN123">>] }

Jars == SeqsUpTo(Cookies, MaxCookies)

\* the jars of the runs that vary the drive ID
FewJars == { <<>>, <<[key |-> <<"download_warning", "_13Ab">>, value |-> <<"TOKEN123">>]>> }

\* the indices of the cookies whose key starts with 'download_warning'
WarningCookies(jar) == {i \in 1..Len(jar) : StartsWith(jar[i].key, DOWNLOAD_WARNING)}

\* the loop overwriting instead of returning: the last matching cookie wins
get_response_confirmation_token_last(jar) ==
    LET hits == WarningCookies(jar)
    IN IF hits = {} THEN NoneV
       ELSE Str(jar[CHOOSE i \in hits : \A j \in hits : j <= i].value)

\* the value of the first cookie, in iteration order, whose key starts with
\* 'download_warning'; None when the loop ends without one
get_response_confirmation_token(jar) ==
    LET hits == WarningCookies(jar)
    IN IF hits = {} THEN NoneV
       ELSE Str(jar[CHOOSE i \in hits : \A j \in hits : i <= j].value)

-----------------------------------------------------------------------------
(* urllib.parse.urlparse and ParseResult.geturl, as try_parse_url uses them. *)
(* The scheme is the text before the first ':' when that text is non-empty   *)
(* and made of scheme characters only; '//' opens a netloc that ends at the  *)
(* next '/' or '?'; a netloc with one of '[' and ']' but not the other       *)
(* raises ValueError.  Every token below is lower case, so .lower() of the   *)
(* scheme changes nothing, and no token is a digit, so the port-number test  *)
(* of older urlsplit versions never applies.                                 *)
(* Later urlsplit versions also strip leading blanks and validate a          *)
(* bracketed host; what they add raises ValueError too.                      *)

UrlAlphabet == {"h", ":", "/", "[", "]", " "}

\* the number of characters of a token
Width(t) ==
    CASE t = "http" -> 4
      [] t = "https" -> 5
      [] t = "open" -> 4
      [] t = "None" -> 4
      [] t = "id=" -> 3
      [] t = "drive.google.com" -> 16
      [] OTHER -> 1

\* len(s)
RECURSIVE StrLen(_)
StrLen(s) == IF s = <<>> THEN 0 ELSE Width(Head(s)) + StrLen(Tail(s))

\* s.rstrip(chars)
RECURSIVE RStrip(_, _)
RStrip(s, cs) ==
    IF s # <<>> /\ s[Len(s)] \in cs THEN RStrip(SubSeq(s, 1, Len(s) - 1), cs) ELSE s

\* s.lstrip(chars)
RECURSIVE LStrip(_, _)
LStrip(s, cs) == IF s # <<>> /\ Head(s) \in cs THEN LStrip(Tail(s), cs) ELSE s

WhiteSpace == {" "}

\* s.strip()
Strip(s) == LStrip(RStrip(s, WhiteSpace), WhiteSpace)

\* a token made of scheme characters (letters, digits, '+', '-', '.') only
IsSchemeToken(t) == t \notin {":", "/", "[", "]", " ", "?", "&", "id="}

ValueErrorV == [kind |-> "ValueError"]

\* the index of the first token of s, from index k on, that is in stop; Len(s)+1 if none
FirstOf(s, k, stop) ==
    LET hits == {i \in k..Len(s) : s[i] \in stop}
    IN IF hits = {} THEN Len(s) + 1 ELSE CHOOSE i \in hits : \A j \in hits : i <= j

\* the path and the query, split at the first '?' (index q; 0: none)
ParseResult(scheme, netloc, after, q) ==
    [kind |-> "url", scheme |-> scheme, netloc |-> netloc,
     path |-> IF q = 0 THEN after ELSE SubSeq(after, 1, q - 1),
     query |-> IF q = 0 THEN <<>> ELSE SubSeq(after, q + 1, Len(after))]

HasToken(s, t) == \E k \in 1..Len(s) : s[k] = t

\* "Invalid IPv6 URL" when the netloc holds one bracket without the other
CheckNetloc(scheme, netloc, after) ==
    IF HasToken(netloc, "[") # HasToken(netloc, "]")
    THEN ValueErrorV
    ELSE ParseResult(scheme, netloc, after, Find(after, <<"?">>))

\* the netloc is rest[2:e], e the index of the first '/' or '?' after the '//'
SplitNetloc(scheme, rest, e) ==
    IF StartsWith(rest, <<"/", "/">>)
    THEN CheckNetloc(scheme, SubSeq(rest, 3, e - 1), SubSeq(rest, e, Len(rest)))
    ELSE ParseResult(scheme, <<>>, rest, Find(rest, <<"?">>))

AfterScheme(scheme, rest) == SplitNetloc(scheme, rest, FirstOf(rest, 3, {"/", "?"}))

\* i is url.find(':')
SplitScheme(u, i) ==
    IF i > 1 /\ \A k \in 1..(i - 1) : IsSchemeToken(u[k])
    THEN AfterScheme(SubSeq(u, 1, i - 1), SubSeq(u, i + 1, Len(u)))
    ELSE AfterScheme(<<>>, u)

urlparse(u) == SplitScheme(u, Find(u, <<":">>))

\* the schemes urlunsplit gives a '//' even when the netloc is empty
UsesNetloc == {<<"http">>, <<"https">>}

WithQuery(u, query) == IF query # <<>> THEN u \o <<"?">> \o query ELSE u

WithScheme(scheme, u) == IF scheme # <<>> THEN scheme \o <<":">> \o u ELSE u

WithNetloc(p) ==
    IF p.netloc # <<>> \/ (p.scheme \in UsesNetloc /\ ~StartsWith(p.path, <<"/", "/">>))
    THEN <<"/", "/">> \o p.netloc
         \o (IF p.path # <<>> /\ Head(p.path) # "/" THEN <<"/">> ELSE <<>>) \o p.path
    ELSE p.path

\* ParseResult.geturl(): the URL put together again from its parts
geturl(p) == WithQuery(WithScheme(p.scheme, WithNetloc(p)), p.query)

HTTP_PREFIX == <<"http", ":", "/", "/">>

MinUrlLen == 4

-----------------------------------------------------------------------------
(* try_parse_url, web.py lines 103-123.  The value is [exc, ret]: the        *)
(* exception that leaves the function ("none": it returns) and what it       *)
(* returns.                                                                  *)

Returns(v) == [exc |-> "none", ret |-> v]
Raises(e) == [exc |-> e, ret |-> NoneV]

\* lines 117-123 with the except clause of line 117 missing
SecondParseUnguarded(q) ==
    IF q = ValueErrorV THEN Raises("ValueError")
    ELSE IF q.scheme = <<>> THEN Returns(NoneV)
    ELSE Returns(q)

FirstParseUnguarded(p) ==
    IF p = ValueErrorV THEN Returns(NoneV)
    ELSE IF p.scheme # <<>> THEN Returns(p)
    ELSE SecondParseUnguarded(urlparse(HTTP_PREFIX \o geturl(p)))

try_parse_url_unguarded(u) ==
    IF StrLen(Strip(u)) < MinUrlLen THEN Returns(NoneV) ELSE FirstParseUnguarded(urlparse(u))

\* lines 117-123: q is what urlparse('http://' + parsed_url.geturl()) gave
SecondParse(q) ==
    IF q = ValueErrorV THEN Returns(NoneV)
    ELSE IF q.scheme = <<>> THEN Returns(NoneV)
    ELSE Returns(q)

\* lines 110-116: p is what urlparse(url) gave
FirstParse(p) ==
    IF p = ValueErrorV THEN Returns(NoneV)
    ELSE IF p.scheme # <<>> THEN Returns(p)
    ELSE SecondParse(urlparse(HTTP_PREFIX \o geturl(p)))

try_parse_url(u) ==
    IF StrLen(Strip(u)) < MinUrlLen THEN Returns(NoneV) ELSE FirstParse(urlparse(u))

-----------------------------------------------------------------------------
(* get_url_title, web.py lines 170-189.  o is what the environment does to   *)
(* the title request: it delivers a page (title: the text of its <title>,    *)
(* None when it has none) or raises e.  The value is [exc, ret, gets]; gets  *)
(* are the URLs requested.                                                   *)

Titles ==
    { <<"f.h5", " ", "-", " ", "Google Drive">>,
      <<"f.h5", ":", "-", " ", " ", "Google Drive">>,
      <<"Google Drive">>,
      <<"f.h5">> }

\* exceptions of the requests library, and one builtin ConnectionError subclass
TransportErrors ==
    {"requests.ConnectionError", "requests.InvalidURL", "requests.Timeout",
     "ConnectionResetError"}

\* isinstance(e, ConnectionError) for the builtin the module's name resolves to:
\* requests.exceptions.ConnectionError derives from IOError, not from it
IsBuiltinConnectionError(e) == e = "ConnectionResetError"

TitleOutcomes ==
    {[kind |-> "ok", title |-> t, e |-> "none"] : t \in {Str(x) : x \in Titles} \cup {NoneV}}
    \cup {[kind |-> "raise", title |-> NoneV, e |-> e] : e \in TransportErrors}

Outcome(e, v, g) == [exc |-> e, ret |-> v, gets |-> g]

\* lines 179-189: the request for g and what becomes of its outcome o
Fetch(g, o) ==
    IF o.kind = "ok" THEN Outcome("none", o.title, <<g>>)
    \* line 184 matches: the handler logs, then calls format_exc, which the
    \* module never imports
    ELSE IF IsBuiltinConnectionError(o.e) THEN Outcome("NameError", NoneV, <<g>>)
    \* line 184 does not match: evaluating the tuple of line 187 looks up
    \* InvalidURL, which the module never imports
    ELSE Outcome("NameError", NoneV, <<g>>)

\* lines 177-180: r is what try_parse_url(url) gave
TitleOf(r, o) ==
    IF r.exc # "none" THEN Outcome(r.exc, NoneV, <<>>)
    ELSE IF r.ret = NoneV THEN Outcome("none", NoneV, <<>>)
    ELSE Fetch(geturl(r.ret), o)

get_url_title(u, o) == TitleOf(try_parse_url(u), o)

-----------------------------------------------------------------------------
(* get_url_filename, web.py lines 197-213 *)

GOOGLE_DRIVE_PREFIX == <<"https", ":", "/", "/", "drive.google.com", "/", "open", "?", "id=">>

DRIVE_HOST == <<"https", ":", "/", "/", "drive.google.com">>

GOOGLE_DRIVE_SUFFIX == <<"Google Drive">>

\* '{}'.format(x)
Format(x) == IF x.kind = "None" THEN <<"None">> ELSE x.v

\* line 211: filename[:-len('Google Drive')].rstrip().rstrip('-:').rstrip()
StripSuffix(t) ==
    RStrip(RStrip(RStrip(SubSeq(t, 1, Len(t) - Len(GOOGLE_DRIVE_SUFFIX)), WhiteSpace),
                  {"-", ":"}),
           WhiteSpace)

\* lines 210-212: t is what get_url_title(url) gave
FilenameOf(t) ==
    IF t.exc # "none" THEN t
    \* None.endswith
    ELSE IF t.ret = NoneV THEN Outcome("AttributeError", NoneV, t.gets)
    ELSE IF EndsWith(t.ret.v, GOOGLE_DRIVE_SUFFIX)
    THEN Outcome("none", Str(StripSuffix(t.ret.v)), t.gets)
    ELSE t

\* lines 208-213
FilenameAt(u, o) ==
    IF StartsWith(u, DRIVE_HOST)
    THEN FilenameOf(get_url_title(u, o))
    ELSE Outcome("none", NoneV, <<>>)

get_url_filename(u, d, o) ==
    FilenameAt(IF Truthy(u) THEN u.v ELSE GOOGLE_DRIVE_PREFIX \o Format(d), o)

-----------------------------------------------------------------------------
(* Destination path, web.py lines 226-230 *)

SEP == "/"

\* os.path.join(a, b)
join(a, b) ==
    IF b # <<>> /\ Head(b) = SEP THEN b
    ELSE IF a = <<>> \/ a[Len(a)] = SEP THEN a \o b
    ELSE a \o <<SEP>> \o b

\* nlpia.futil.expand_filepath: a leading '~' becomes the home directory
expand_filepath(p) ==
    IF p # <<>> /\ Head(p) = "~" /\ (Len(p) = 1 \/ p[2] = SEP)
    THEN <<"HOME">> \o Tail(p)
    ELSE p

full_destination_path(fn, dest) ==
    expand_filepath(IF \E k \in 1..Len(fn) : fn[k] = SEP THEN fn ELSE join(dest, fn))

DefaultChunkSize == 32768

\* chunksize or 32768
EffectiveChunkSize(c) == IF Truthy(c) THEN c ELSE IntV(DefaultChunkSize)

-----------------------------------------------------------------------------
(* Initial states: one call, with its arguments *)

Absent == [exists |-> FALSE, content |-> <<>>]

Ids == SeqsUpTo(IdAlphabet, MaxIdLen)

\* the drive IDs of the runs that vary the responses
FewIds == { <<>>, <<"x">>, <<"x", "&", "id=", "x", "?", "id=", "x">>, <<"?", "id=", "x", "x">> }

Urls == SeqsUpTo(UrlAlphabet, MaxUrlLen)

TitleUrls ==
    { GOOGLE_DRIVE_PREFIX \o <<"x">>, <<"h">>, <<"/", "/", "[", "h">>,
      <<"[", "h", "h", "h">>, <<"h", "h", "/", "h">>, <<"h", ":", "/", "/", "h", "?">> }

FilenameUrls ==
    { GOOGLE_DRIVE_PREFIX \o <<"x">>, DRIVE_HOST \o <<"[">>, <<"h", "h", "/", "h">> }

FileNames == { <<"f.h5">>, <<"d", "/", "f.h5">>, <<"~", "/", "f.h5">> }

Destinations == { <<".">>, <<"~">>, <<"d", "/">> }

ChunkSet == { <<>>, <<"a", "b", "c">>, <<"d", "e", "f">> }

ChunkSizes == { NoneV, IntV(0), IntV(3), IntV(DefaultChunkSize) }

InitLocals ==
    /\ pc = "call"
    /\ requests = <<>>
    /\ responses = <<>>
    /\ response = 0
    /\ token = NoneV
    /\ title_gets = <<>>
    /\ writer_calls = <<>>
    /\ iter_arg = NoneV
    /\ path = NoneV
    /\ result = NoneV
    /\ exc = "none"

InitDownload(ids) ==
    /\ op = "download_file_from_google_drive"
    /\ args \in [driveid : {Str(i) : i \in ids},
                 filename : {NoneV, Str(<<>>), Str(<<"f.h5">>)},
                 chunksize : {NoneV}]
    /\ driveid = args.driveid
    /\ filename = args.filename
    /\ chunksize = args.chunksize
    /\ destination = <<".">>
    /\ url = NoneV
    /\ chunks = <<>>
    /\ file = Absent
    /\ InitLocals

InitSave ==
    /\ op = "save_response_content"
    /\ args \in [driveid : {NoneV},
                 filename : {Str(f) : f \in FileNames},
                 chunksize : ChunkSizes]
    /\ driveid = args.driveid
    /\ filename = args.filename
    /\ chunksize = args.chunksize
    /\ destination \in Destinations
    /\ url = NoneV
    /\ chunks \in SeqsUpTo(ChunkSet, MaxChunks)
    /\ file \in {Absent, [exists |-> TRUE, content |-> <<"o", "l", "d">>]}
    /\ InitLocals

InitUrl(f, urls, ids) ==
    /\ op = f
    /\ args \in [driveid : ids, filename : {NoneV}, chunksize : {NoneV}]
    /\ driveid = args.driveid
    /\ filename = args.filename
    /\ chunksize = args.chunksize
    /\ destination = <<".">>
    /\ url \in urls
    /\ chunks = <<>>
    /\ file = Absent
    /\ InitLocals

Init ==
    \/ InitDownload(FewIds)
    \/ InitSave
    \/ InitUrl("try_parse_url", {Str(u) : u \in Urls}, {NoneV})
    \/ InitUrl("get_url_title", {Str(u) : u \in TitleUrls}, {NoneV})
    \/ InitUrl("get_url_filename", {Str(u) : u \in FilenameUrls} \cup {NoneV},
               {NoneV, Str(<<"x">>)})

InitExtract == InitDownload(Ids)

-----------------------------------------------------------------------------
(* download_file_from_google_drive, web.py lines 240-268 *)

DOWNLOAD_URL == "https://docs.google.com/uc?export=download"

Get(params) == [url |-> DOWNLOAD_URL, params |-> params]

\* lines 246-251: driveid is rebound to the extracted ID
DL_Extract ==
    /\ op = "download_file_from_google_drive" /\ pc = "call"
    /\ driveid' = Str(ExtractDriveId(driveid.v))
    /\ pc' = "get"
    /\ UNCHANGED <<op, args, filename, destination, url, chunksize, chunks, requests,
                   responses, response, token, title_gets, writer_calls, iter_arg,
                   file, path, result, exc>>

\* line 257: the initial request, answered by a response carrying jar
DL_InitialGet(J) ==
    /\ op = "download_file_from_google_drive" /\ pc = "get"
    /\ \E jar \in J :
         /\ requests' = Append(requests, Get([id |-> driveid.v, confirm |-> NoneV]))
         /\ responses' = Append(responses, jar)
         /\ response' = Len(responses) + 1
    /\ pc' = "token"
    /\ UNCHANGED <<op, driveid, args, filename, destination, url, chunksize, chunks,
                   token, title_gets, writer_calls, iter_arg, file, path, result, exc>>

\* line 257: the transport fails; nothing catches it
DL_InitialGetFails ==
    /\ op = "download_file_from_google_drive" /\ pc = "get"
    /\ requests' = Append(requests, Get([id |-> driveid.v, confirm |-> NoneV]))
    /\ exc' = "requests.ConnectionError"
    /\ pc' = "raised"
    /\ UNCHANGED <<op, driveid, args, filename, destination, url, chunksize, chunks,
                   responses, response, token, title_gets, writer_calls, iter_arg,
                   file, path, result>>

\* lines 258, 260: the token of the current response, and the test of it
DL_GetToken ==
    /\ op = "download_file_from_google_drive" /\ pc = "token"
    /\ token' = get_response_confirmation_token(responses[response])
    /\ pc' = IF Truthy(token') THEN "confirm" ELSE "filename"
    /\ UNCHANGED <<op, driveid, args, filename, destination, url, chunksize, chunks,
                   requests, responses, response, title_gets, writer_calls, iter_arg,
                   file, path, result, exc>>

\* lines 261-262: the confirmed request; response is rebound to its response
DL_ConfirmGet(J) ==
    /\ op = "download_file_from_google_drive" /\ pc = "confirm"
    /\ \E jar \in J :
         /\ requests' = Append(requests, Get([id |-> driveid.v, confirm |-> token]))
         /\ responses' = Append(responses, jar)
         /\ response' = Len(responses) + 1
    /\ pc' = "filename"
    /\ UNCHANGED <<op, driveid, args, filename, destination, url, chunksize, chunks,
                   token, title_gets, writer_calls, iter_arg, file, path, result, exc>>

\* line 262: the transport fails; nothing catches it
DL_ConfirmGetFails ==
    /\ op = "download_file_from_google_drive" /\ pc = "confirm"
    /\ requests' = Append(requests, Get([id |-> driveid.v, confirm |-> token]))
    /\ exc' = "requests.ConnectionError"
    /\ pc' = "raised"
    /\ UNCHANGED <<op, driveid, args, filename, destination, url, chunksize, chunks,
                   responses, response, token, title_gets, writer_calls, iter_arg,
                   file, path, result>>

\* line 264, filename truthy: the or never evaluates get_url_filename
DL_KeepFilename ==
    /\ op = "download_file_from_google_drive" /\ pc = "filename"
    /\ Truthy(filename)
    /\ pc' = "save"
    /\ UNCHANGED <<op, driveid, args, filename, destination, url, chunksize, chunks,
                   requests, responses, response, token, title_gets, writer_calls,
                   iter_arg, file, path, result, exc>>

\* line 264: the name filename is rebound to what get_url_filename returned,
\* or the exception it raised leaves the function
Looked(r) ==
    /\ title_gets' = title_gets \o r.gets
    /\ filename' = IF r.exc = "none" THEN r.ret ELSE filename
    /\ pc' = IF r.exc = "none" THEN "save" ELSE "raised"
    /\ exc' = r.exc

\* line 264, filename falsy: get_url_filename(driveid=driveid)
DL_LookupFilename ==
    /\ op = "download_file_from_google_drive" /\ pc = "filename"
    /\ ~Truthy(filename)
    /\ \E o \in TitleOutcomes : Looked(get_url_filename(NoneV, driveid, o))
    /\ UNCHANGED <<op, driveid, args, destination, url, chunksize, chunks, requests,
                   responses, response, token, writer_calls, iter_arg, file, path,
                   result>>

\* line 266: the arguments are evaluated before the call, and fileanme is no
\* name of the function or the module: NameError, save_response_content is not
\* entered, and line 268 is never reached
DL_Save ==
    /\ op = "download_file_from_google_drive" /\ pc = "save"
    /\ exc' = "NameError"
    /\ pc' = "raised"
    /\ UNCHANGED <<op, driveid, args, filename, destination, url, chunksize, chunks,
                   requests, responses, response, token, title_gets, writer_calls,
                   iter_arg, file, path, result>>

-----------------------------------------------------------------------------
(* save_response_content, web.py lines 223-235 *)

\* lines 225-230
SV_Prepare ==
    /\ op = "save_response_content" /\ pc = "call"
    /\ chunksize' = EffectiveChunkSize(chunksize)
    /\ path' = Str(full_destination_path(filename.v, destination))
    /\ pc' = "open"
    /\ UNCHANGED <<op, driveid, args, filename, destination, url, chunks, requests,
                   responses, response, token, title_gets, writer_calls, iter_arg,
                   file, result, exc>>

\* line 231: open(..., "wb") creates the file or truncates it
SV_Open ==
    /\ op = "save_response_content" /\ pc = "open"
    /\ file' = [exists |-> TRUE, content |-> <<>>]
    /\ pc' = "iter"
    /\ UNCHANGED <<op, driveid, args, filename, destination, url, chunksize, chunks,
                   requests, responses, response, token, title_gets, writer_calls,
                   iter_arg, path, result, exc>>

\* line 231: the destination cannot be opened
SV_OpenFails ==
    /\ op = "save_response_content" /\ pc = "open"
    /\ exc' = "OSError"
    /\ pc' = "raised"
    /\ UNCHANGED <<op, driveid, args, filename, destination, url, chunksize, chunks,
                   requests, responses, response, token, title_gets, writer_calls,
                   iter_arg, file, path, result>>

\* line 232: the argument of iter_content is the name CHUNK_SIZE, which neither
\* the function nor the module defines: NameError before iter_content is
\* called; the with block closes the (empty) file on the way out
SV_Iter ==
    /\ op = "save_response_content" /\ pc = "iter"
    /\ exc' = "NameError"
    /\ pc' = "raised"
    /\ UNCHANGED <<op, driveid, args, filename, destination, url, chunksize, chunks,
                   requests, responses, response, token, title_gets, writer_calls,
                   iter_arg, file, path, result>>

-----------------------------------------------------------------------------
(* The URL helpers called on their own *)

Finish(r) ==
    /\ result' = r.ret
    /\ exc' = r.exc
    /\ pc' = IF r.exc = "none" THEN "returned" ELSE "raised"

FinishFetch(r) == Finish(r) /\ title_gets' = r.gets

TP_Call ==
    /\ op = "try_parse_url" /\ pc = "call"
    /\ Finish(try_parse_url(url.v))
    /\ UNCHANGED <<op, driveid, args, filename, destination, url, chunksize, chunks,
                   requests, responses, response, token, title_gets, writer_calls,
                   iter_arg, file, path>>

GT_Call ==
    /\ op = "get_url_title" /\ pc = "call"
    /\ \E o \in TitleOutcomes : FinishFetch(get_url_title(url.v, o))
    /\ UNCHANGED <<op, driveid, args, filename, destination, url, chunksize, chunks,
                   requests, responses, response, token, writer_calls, iter_arg,
                   file, path>>

GF_Call ==
    /\ op = "get_url_filename" /\ pc = "call"
    /\ \E o \in TitleOutcomes : FinishFetch(get_url_filename(url, driveid, o))
    /\ UNCHANGED <<op, driveid, args, filename, destination, url, chunksize, chunks,
                   requests, responses, response, token, writer_calls, iter_arg,
                   file, path>>

-----------------------------------------------------------------------------

Download(J) ==
    \/ DL_Extract
    \/ DL_InitialGet(J)
    \/ DL_InitialGetFails
    \/ DL_GetToken
    \/ DL_ConfirmGet(J)
    \/ DL_ConfirmGetFails
    \/ DL_KeepFilename
    \/ DL_LookupFilename
    \/ DL_Save

Next ==
    \/ Download(Jars)
    \/ SV_Prepare
    \/ SV_Open
    \/ SV_OpenFails
    \/ SV_Iter
    \/ TP_Call
    \/ GT_Call
    \/ GF_Call

NextExtract == Download(FewJars)

Spec == Init /\ [][Next]_vars

SpecExtract == InitExtract /\ [][NextExtract]_vars

Terminal == pc \in {"returned", "raised"}

-----------------------------------------------------------------------------
(* Properties *)

IsDownload == op = "download_file_from_google_drive"

IsSave == op = "save_response_content"

TRANSPORT == "requests.ConnectionError"

\* the greatest index at which d occurs in s, 0 if none
LastPos(s, d) ==
    LET starts == 1..(Len(s) - Len(d) + 1)
    IN IF \E i \in starts : SubSeq(s, i, i + Len(d) - 1) = d
       THEN CHOOSE i \in starts :
              /\ SubSeq(s, i, i + Len(d) - 1) = d
              /\ \A j \in starts : j > i => SubSeq(s, j, j + Len(d) - 1) # d
       ELSE 0

\* the text of s after the occurrence of the four characters of d at index i
After(s, i, d) == SubSeq(s, i + Len(d), Len(s))

\* the ids of the requests issued so far
SentIds == {requests[k].params.id : k \in 1..Len(requests)}

\* the token decision has been taken and acted upon
HandshakeOver == IsDownload /\ Len(responses) >= 1 /\ pc \notin {"token", "confirm"}

\* cookie i of the jar is the first whose key starts with 'download_warning'
FirstWarning(jar, i) ==
    /\ i \in 1..Len(jar)
    /\ StartsWith(jar[i].key, DOWNLOAD_WARNING)
    /\ \A j \in 1..(i - 1) : ~StartsWith(jar[j].key, DOWNLOAD_WARNING)

HasWarning(jar) == \E i \in 1..Len(jar) : StartsWith(jar[i].key, DOWNLOAD_WARNING)

(* C1, as stated: once the handshake is over, the first request carries    *)
(* id=<driveid> alone; a second request was issued if and only if the       *)
(* initial response carries a cookie whose key starts with                  *)
(* 'download_warning'; its parameters are id=<driveid> and confirm=<the     *)
(* value of such a cookie>; without such a cookie the initial response is   *)
(* the current one.                                                         *)
C1_SecondGetIffWarningCookie ==
    HandshakeOver =>
        /\ requests[1] = Get([id |-> driveid.v, confirm |-> NoneV])
        /\ Len(requests) = 2 <=> HasWarning(responses[1])
        /\ Len(requests) = 2 =>
             \E i \in 1..Len(responses[1]) :
                /\ StartsWith(responses[1][i].key, DOWNLOAD_WARNING)
                /\ requests[2] = Get([id |-> driveid.v,
                                      confirm |-> Str(responses[1][i].value)])
        /\ ~HasWarning(responses[1]) => response = 1

(* C1, amended: the second request is issued if and only if the first       *)
(* cookie, in iteration order, whose key starts with 'download_warning' has *)
(* a non-empty value; its parameters are id=<driveid> and confirm=<that     *)
(* value>; otherwise no second request is made and the initial response     *)
(* stays the current one.                                                   *)
C1_SecondGetIffTruthyToken ==
    HandshakeOver =>
        /\ requests[1] = Get([id |-> driveid.v, confirm |-> NoneV])
        /\ Len(requests) <= 2
        /\ IF \E i \in 1..Len(responses[1]) :
                 FirstWarning(responses[1], i) /\ responses[1][i].value # <<>>
           THEN /\ Len(requests) = 2
                /\ \E i \in 1..Len(responses[1]) :
                     /\ FirstWarning(responses[1], i)
                     /\ requests[2] = Get([id |-> driveid.v,
                                           confirm |-> Str(responses[1][i].value)])
                /\ Len(responses) = 2 => response = 2
           ELSE Len(requests) = 1 /\ response = 1

\* a confirmed request made on a jar with two warning cookies of different values
C1_Witness ==
    /\ HandshakeOver /\ pc = "save"
    /\ Len(requests) = 2
    /\ Len(responses[1]) = 2
    /\ HasWarning(<<responses[1][1]>>) /\ HasWarning(<<responses[1][2]>>)
    /\ responses[1][1].value # responses[1][2].value

(* C2, as stated: every id sent is the text after the last '&id=' if the   *)
(* input contains '&id='; else the text after the last '?id=' if it         *)
(* contains '?id='; else the input.                                         *)
C2_AmpThenElseQuestion ==
    IsDownload =>
        \A id \in SentIds :
            id = IF LastPos(args.driveid.v, AMP_ID) # 0
                 THEN After(args.driveid.v, LastPos(args.driveid.v, AMP_ID), AMP_ID)
                 ELSE IF LastPos(args.driveid.v, Q_ID) # 0
                 THEN After(args.driveid.v, LastPos(args.driveid.v, Q_ID), Q_ID)
                 ELSE args.driveid.v

\* the index after which no '&id=' and no '?id=' occurs: the later of the two last ones
LastDelimiter(s) ==
    IF LastPos(s, AMP_ID) >= LastPos(s, Q_ID) THEN LastPos(s, AMP_ID) ELSE LastPos(s, Q_ID)

(* C2, amended: every id sent is the text after the last occurrence of      *)
(* either '&id=' or '?id=' in the input (the '?id=' rule is applied to what *)
(* the '&id=' rule left), and the input itself when neither occurs.         *)
C2_AfterLastDelimiter ==
    IsDownload =>
        \A id \in SentIds :
            id = IF LastDelimiter(args.driveid.v) = 0
                 THEN args.driveid.v
                 ELSE After(args.driveid.v, LastDelimiter(args.driveid.v), AMP_ID)

\* both requests sent for an input with a '?id=' after its last '&id='
C2_Witness ==
    /\ IsDownload /\ Len(requests) = 2
    /\ LastPos(args.driveid.v, AMP_ID) # 0
    /\ LastPos(args.driveid.v, Q_ID) > LastPos(args.driveid.v, AMP_ID)
    /\ requests[2].params.id # <<>>

(* C7, as stated: every id sent, in the initial and in the confirmed        *)
(* request, is a non-empty string.                                          *)
C7_SentIdNonEmpty == IsDownload => \A id \in SentIds : id # <<>>

(* C7, amended: the id is sent unvalidated; it is empty exactly when the    *)
(* input is empty or ends with '&id=' or '?id=', and non-empty otherwise.   *)
C7_SentIdEmptyIff ==
    IsDownload =>
        \A id \in SentIds :
            id = <<>> <=> \/ args.driveid.v = <<>>
                          \/ EndsWith(args.driveid.v, AMP_ID)
                          \/ EndsWith(args.driveid.v, Q_ID)

\* an empty id sent twice for a non-empty input
C7_Witness ==
    /\ IsDownload /\ Len(requests) = 2
    /\ args.driveid.v # <<>>
    /\ requests[1].params.id = <<>> /\ requests[2].params.id = <<>>

(* C10: the extracted drive ID contains neither '&id=' nor '?id=', and      *)
(* extracting again from it returns it unchanged.                           *)
C10_ExtractionIdempotent ==
    IsDownload /\ pc # "call" =>
        /\ LastPos(driveid.v, AMP_ID) = 0
        /\ LastPos(driveid.v, Q_ID) = 0
        /\ ExtractDriveId(driveid.v) = driveid.v

\* an extraction that cut at both delimiters and left a non-empty id
C10_Witness ==
    /\ IsDownload /\ pc = "get"
    /\ LastPos(args.driveid.v, AMP_ID) # 0
    /\ LastPos(args.driveid.v, Q_ID) # 0
    /\ Len(driveid.v) >= 1
    /\ Len(driveid.v) + 4 <= Len(args.driveid.v)

(* C4: try_parse_url never raises: it returns None or a parsed URL whose    *)
(* scheme is non-empty, and None for a text shorter than 4 characters once  *)
(* stripped.                                                                *)
C4_TryParseUrlNeverRaises ==
    op = "try_parse_url" =>
        /\ pc # "raised" /\ exc = "none"
        /\ pc = "returned" =>
             /\ result = NoneV \/ (result.kind = "url" /\ result.scheme # <<>>)
             /\ StrLen(Strip(url.v)) < MinUrlLen => result = NoneV

\* None returned for a text of 4 characters or more that parses without a
\* scheme and cannot be parsed behind 'http://'
C4_Witness ==
    /\ op = "try_parse_url" /\ pc = "returned"
    /\ result = NoneV
    /\ StrLen(Strip(url.v)) >= MinUrlLen
    /\ ~StartsWith(url.v, <<"/", "/">>)
    /\ HasToken(url.v, "[") # HasToken(url.v, "]")

\* the non-empty chunks, concatenated in arrival order
RECURSIVE Concat(_)
Concat(cs) == IF cs = <<>> THEN <<>> ELSE Head(cs) \o Concat(Tail(cs))

(* C3: save_response_content completes with the destination file holding    *)
(* exactly the concatenation of the chunks in arrival order (any prior      *)
(* content discarded) and returns the resolved destination path.            *)
C3_FileHoldsChunks ==
    IsSave /\ Terminal /\ exc # "OSError" =>
        /\ pc = "returned"
        /\ file = [exists |-> TRUE, content |-> Concat(chunks)]
        /\ result = path

(* C8: the block size requested from the response is the chunk size         *)
(* supplied, and 32768 when the supplied one is zero, falsy or omitted.     *)
C8_IterUsesEffectiveChunkSize ==
    IsSave /\ Terminal /\ exc # "OSError" =>
        iter_arg = IF Truthy(args.chunksize) THEN args.chunksize ELSE IntV(DefaultChunkSize)

(* C5: a download called with a non-empty filename hands that filename to   *)
(* the chunked writer and performs no title fetch; a title fetch happens    *)
(* only when no filename was given.                                         *)
C5_FilenamePassedVerbatim ==
    IsDownload =>
        /\ title_gets # <<>> => ~Truthy(args.filename)
        /\ Terminal /\ exc # TRANSPORT /\ Truthy(args.filename) =>
             /\ title_gets = <<>>
             /\ Len(writer_calls) = 1
             /\ writer_calls[1].filename = args.filename

(* C6: get_url_title and get_url_filename do not raise: when the title      *)
(* retrieval fails, or the URL is rejected before any request, they return  *)
(* None.                                                                    *)
C6_TitleFailureIsAbsent ==
    op \in {"get_url_title", "get_url_filename"} /\ Terminal =>
        /\ pc = "returned" /\ exc = "none"
        /\ title_gets = <<>> => result = NoneV

(* C9: at most two requests are issued, the writer is called only once the  *)
(* handshake is over, and the body streamed to disk is that of the last     *)
(* response received.                                                       *)
C9_AtMostTwoRequestsLastStreamed ==
    IsDownload =>
        /\ Len(requests) <= 2
        /\ writer_calls # <<>> => HandshakeOver
        /\ Terminal /\ exc # TRANSPORT =>
             /\ Len(writer_calls) = 1
             /\ writer_calls[1].response = Len(responses)

====
